---- MODULE Spec2Model ----
(***************************************************************************)
(* Byte Pair Encoding tokenizer (src/BytePairEncoding_BPE.py).             *)
(*                                                                         *)
(* A Python string is a sequence of one-character strings.  A word         *)
(* representation is, as in the source, ONE string whose symbols are       *)
(* separated by blanks ("l o w </w>"); it is cut into symbols with         *)
(* str.split() and put together again with ' '.join().  An insertion       *)
(* ordered dict is a sequence of <<key, value>> entries with distinct keys.*)
(* self.vocab and self.inverse_vocab, whose order no operation reads, are  *)
(* functions.                                                              *)
(***************************************************************************)
EXTENDS Integers, Sequences, FiniteSets, TLC

VARIABLES
    pc,             \* position of the caller: "new", "loop", "warn", "done", "encoded",
                    \* "decoded"; "merge", "merged", "merged twice" around _merge_word
    word_counts,    \* argument of train: ordered dict word -> count
    target,         \* self.vocab_size
    vocab,          \* self.vocab: symbol -> id
    inverse_vocab,  \* self.inverse_vocab: id -> symbol
    merges,         \* self.merges: ordered dict pair -> merged symbol
    word_freqs,     \* train's local word_freqs: ordered dict representation -> frequency
    vocab_size,     \* train's local vocab_size
    iterations,     \* train's local iterations
    pairs,          \* train's local pairs of the last iteration
    best_pair,      \* train's local best_pair of the last iteration that chose one
    pair_freq,      \* train's local pair_freq of that iteration
    exit,           \* the way the training loop was left
    warned,         \* whether the iteration-cap warning was printed
    enc_text,       \* argument of the last encode
    enc_tokens,     \* encode's local tokens
    enc_ids,        \* result of the last encode
    dec_ids,        \* argument of the last decode
    dec_text,       \* result of the last decode
    mw_word,        \* argument word of _merge_word
    mw_pair,        \* argument pair of _merge_word
    mw_out,         \* result of _merge_word(mw_word, mw_pair)
    mw_out2         \* result of _merge_word(mw_out, mw_pair)

vars == <<pc, word_counts, target, vocab, inverse_vocab, merges, word_freqs,
          vocab_size, iterations, pairs, best_pair, pair_freq, exit, warned,
          enc_text, enc_tokens, enc_ids, dec_ids, dec_text,
          mw_word, mw_pair, mw_out, mw_out2>>

trainVars == <<word_counts, target, vocab, inverse_vocab, merges, word_freqs,
               vocab_size, iterations, pairs, best_pair, pair_freq, exit, warned>>
codecVars == <<enc_text, enc_tokens, enc_ids, dec_ids, dec_text>>
mergeVars == <<mw_word, mw_pair, mw_out, mw_out2>>

(***************************************************************************)
(* Characters and strings                                                  *)
(***************************************************************************)

\* The characters of the model, each with its Unicode code point: Python
\* compares strings code point by code point.
OrdOf == [c \in {" ", "/", "<", ">", "a", "b", "d", "e", "l", "n", "o", "r",
                 "s", "t", "u", "w", "z"} |->
            CASE c = " " -> 32  [] c = "/" -> 47  [] c = "<" -> 60
              [] c = ">" -> 62  [] c = "a" -> 97  [] c = "b" -> 98
              [] c = "d" -> 100 [] c = "e" -> 101 [] c = "l" -> 108
              [] c = "n" -> 110 [] c = "o" -> 111 [] c = "r" -> 114
              [] c = "s" -> 115 [] c = "t" -> 116 [] c = "u" -> 117
              [] c = "w" -> 119 [] c = "z" -> 122]

\* str.isspace for one character
IsSpace(c) == c = " "

\* The end-of-word marker '</w>'
EOW == <<"<", "/", "w", ">">>

\* Python's None, as a value that is no id (ids are >= 0)
None == -1

Min2(a, b) == IF a <= b THEN a ELSE b
Max2(a, b) == IF a >= b THEN a ELSE b

\* s < t for Python strings
StrLess(s, t) ==
    LET n == Min2(Len(s), Len(t))
        diff == {i \in 1..n : s[i] # t[i]}
    IN  IF diff = {} THEN Len(s) < Len(t)
        ELSE LET i == CHOOSE j \in diff : \A k \in diff : j <= k
             IN  OrdOf[s[i]] < OrdOf[t[i]]

\* s[from:] (1-based from)
Drop(s, k) == SubSeq(s, k + 1, Len(s))

RECURSIVE SplitAcc(_, _, _, _)
SplitAcc(s, i, cur, acc) ==
    IF i > Len(s)
    THEN IF cur = <<>> THEN acc ELSE Append(acc, cur)
    ELSE IF IsSpace(s[i])
         THEN SplitAcc(s, i + 1, <<>>, IF cur = <<>> THEN acc ELSE Append(acc, cur))
         ELSE SplitAcc(s, i + 1, Append(cur, s[i]), acc)

\* s.split(): the maximal blank-free pieces of s
Split(s) == SplitAcc(s, 1, <<>>, <<>>)

RECURSIVE JoinWith(_, _)
\* sep.join(parts)
JoinWith(sep, parts) ==
    IF parts = <<>> THEN <<>>
    ELSE IF Len(parts) = 1 THEN parts[1]
    ELSE parts[1] \o sep \o JoinWith(sep, Tail(parts))

\* ' '.join(parts)
Join(parts) == JoinWith(<<" ">>, parts)

\* ''.join(parts)
Concat(parts) == JoinWith(<<>>, parts)

\* list(word): one string per character
CharList(word) == [i \in 1..Len(word) |-> <<word[i]>>]

\* ' '.join(list(word)) + ' </w>'
CharSplit(word) == Join(CharList(word)) \o <<" ">> \o EOW

(***************************************************************************)
(* Insertion-ordered dicts                                                 *)
(***************************************************************************)

Keys(d) == {d[i][1] : i \in 1..Len(d)}
IndexOf(d, k) == CHOOSE i \in 1..Len(d) : d[i][1] = k
Get(d, k) == d[IndexOf(d, k)][2]

\* d[k] = v: a new key goes to the end, an old key keeps its place
Put(d, k, v) ==
    IF k \in Keys(d) THEN [d EXCEPT ![IndexOf(d, k)] = <<k, v>>]
    ELSE Append(d, <<k, v>>)

\* d[k] += n on a defaultdict(int)
AddTo(d, k, n) ==
    IF k \in Keys(d) THEN [d EXCEPT ![IndexOf(d, k)] = <<k, d[IndexOf(d, k)][2] + n>>]
    ELSE Append(d, <<k, n>>)

\* f[k] = v on an unordered dict
FunPut(f, k, v) == [x \in (DOMAIN f) \cup {k} |-> IF x = k THEN v ELSE f[x]]

Range(f) == {f[x] : x \in DOMAIN f}

(***************************************************************************)
(* train                                                                   *)
(***************************************************************************)

\* The safety limit of the training loop
max_iterations == 100

\* The loops over the entries of a dict below run over the entries lo..hi in
\* order, each starting from what the one before left in acc; the range is cut
\* in halves only to keep the depth of the evaluation logarithmic.  The test
\* on the first half's result is always true: it has the first half computed
\* before the second is started on.

RECURSIVE CountWords(_, _, _, _)
\* for word, count in word_counts.items(): word_freqs[...] += count
CountWords(wc, lo, hi, acc) ==
    IF lo > hi THEN acc
    ELSE IF lo = hi THEN AddTo(acc, CharSplit(wc[lo][1]), wc[lo][2])
    ELSE LET first == CountWords(wc, lo, (lo + hi) \div 2, acc)
         IN  IF Len(first) >= 0 THEN CountWords(wc, (lo + hi) \div 2 + 1, hi, first)
             ELSE first

InitWordFreqs(wc) == CountWords(wc, 1, Len(wc), <<>>)

\* chars: every symbol of every key of word_freqs
CharsOf(wf) == UNION {{Split(wf[i][1])[j] : j \in 1..Len(Split(wf[i][1]))} : i \in 1..Len(wf)}

\* sorted(S) for a set of strings
Sorted(S) ==
    [i \in 1..Cardinality(S) |->
        CHOOSE c \in S : Cardinality({d \in S : StrLess(d, c)}) = i - 1]

\* self.vocab after the loop over sorted(chars), started from old
InitVocab(old, chars) ==
    [c \in (DOMAIN old) \cup chars |->
        IF c \in chars THEN (CHOOSE i \in 1..Cardinality(chars) : Sorted(chars)[i] = c) - 1
        ELSE old[c]]

\* self.inverse_vocab after the loop over sorted(chars), started from old
InitInverseVocab(old, chars) ==
    [i \in (DOMAIN old) \cup (0..(Cardinality(chars) - 1)) |->
        IF i \in 0..(Cardinality(chars) - 1) THEN Sorted(chars)[i + 1] ELSE old[i]]

RECURSIVE PairsOfWordSwapped(_, _, _, _)
\* PairsOfWord with the two symbols of each pair in the wrong order
PairsOfWordSwapped(symbols, i, freq, acc) ==
    IF i >= Len(symbols) THEN acc
    ELSE PairsOfWordSwapped(symbols, i + 1, freq,
                            AddTo(acc, <<symbols[i + 1], symbols[i]>>, freq))

RECURSIVE PairsOfWord(_, _, _, _)
\* for i in range(len(symbols) - 1): pairs[(symbols[i], symbols[i + 1])] += freq
PairsOfWord(symbols, i, freq, acc) ==
    IF i >= Len(symbols) THEN acc
    ELSE PairsOfWord(symbols, i + 1, freq,
                     AddTo(acc, <<symbols[i], symbols[i + 1]>>, freq))

RECURSIVE PairsFrom(_, _, _, _)
\* for word, freq in word_freqs.items(): ...
PairsFrom(wf, lo, hi, acc) ==
    IF lo > hi THEN acc
    ELSE IF lo = hi
         THEN LET symbols == Split(wf[lo][1])
              IN  IF Len(symbols) < 2 THEN acc
                  ELSE PairsOfWord(symbols, 1, wf[lo][2], acc)
    ELSE LET first == PairsFrom(wf, lo, (lo + hi) \div 2, acc)
         IN  IF Len(first) >= 0 THEN PairsFrom(wf, (lo + hi) \div 2 + 1, hi, first)
             ELSE first

\* _get_pairs: ordered dict pair -> summed frequency, in order of first occurrence
GetPairs(wf) == PairsFrom(wf, 1, Len(wf), <<>>)

\* Better that lets a later item of the same value win
BetterOrEqual(item, best) == IF item[2] >= best[2] THEN item ELSE best

\* one step of max(): a later item replaces the best so far only if its key is greater
Better(item, best) == IF item[2] > best[2] THEN item ELSE best

RECURSIVE MaxItemFrom(_, _, _, _)
\* max() over the items lo..hi, in order, starting from best
MaxItemFrom(items, lo, hi, best) ==
    IF lo > hi THEN best
    ELSE IF lo = hi THEN Better(items[lo], best)
    ELSE LET first == MaxItemFrom(items, lo, (lo + hi) \div 2, best)
         IN  IF Len(first) >= 0 THEN MaxItemFrom(items, (lo + hi) \div 2 + 1, hi, first)
             ELSE first

\* max(pairs.items(), key=lambda x: x[1])[0]: the first item of maximal value
BestPair(items) == MaxItemFrom(items, 2, Len(items), items[1])[1]

RECURSIVE MergeLoopFirstOnly(_, _, _)
\* MergeLoop that stops after the first occurrence it replaced
MergeLoopFirstOnly(parts, pair, i) ==
    IF i < Len(parts)
    THEN IF parts[i] = pair[1] /\ parts[i + 1] = pair[2]
         THEN SubSeq(parts, 1, i - 1) \o <<Concat(pair)>> \o SubSeq(parts, i + 2, Len(parts))
         ELSE MergeLoopFirstOnly(parts, pair, i + 1)
    ELSE parts

RECURSIVE MergeLoop(_, _, _)
\* the while loop of _merge_word; i is the position, counted from 1
MergeLoop(parts, pair, i) ==
    IF i < Len(parts)
    THEN IF parts[i] = pair[1] /\ parts[i + 1] = pair[2]
         THEN MergeLoop(SubSeq(parts, 1, i - 1) \o <<Concat(pair)>>
                            \o SubSeq(parts, i + 2, Len(parts)), pair, i)
         ELSE MergeLoop(parts, pair, i + 1)
    ELSE parts

\* _merge_word
MergeWord(word, pair) ==
    LET parts == Split(word)
    IN  IF Len(parts) < 2 THEN word ELSE Join(MergeLoop(parts, pair, 1))

RECURSIVE RebuildFrom(_, _, _, _, _)
\* for word, freq in word_freqs.items(): new_word_freqs[_merge_word(word, pair)] += freq
RebuildFrom(wf, pair, lo, hi, acc) ==
    IF lo > hi THEN acc
    ELSE IF lo = hi THEN AddTo(acc, MergeWord(wf[lo][1], pair), wf[lo][2])
    ELSE LET first == RebuildFrom(wf, pair, lo, (lo + hi) \div 2, acc)
         IN  IF Len(first) >= 0 THEN RebuildFrom(wf, pair, (lo + hi) \div 2 + 1, hi, first)
             ELSE first

Rebuild(wf, pair) == RebuildFrom(wf, pair, 1, Len(wf), <<>>)

\* LoopCond that lets the loop run once more at the target size
LoopCondInclusive(vs, tgt, it) == vs <= tgt /\ it < max_iterations

\* the condition of the training loop
LoopCond(vs, tgt, it) == vs < tgt /\ it < max_iterations

\* BelowFloor with the floor at 0
BelowFloorZero(freq) == freq < 0

\* "if pair_freq < 1: break"
BelowFloor(freq) == freq < 1

\* the condition of the warning after the loop
WarnCond(it) == it >= max_iterations

\* train, up to the loop
TrainStart ==
    /\ pc = "new"
    /\ LET wf == InitWordFreqs(word_counts)
           chars == CharsOf(wf)
       IN  /\ word_freqs' = wf
           /\ vocab' = InitVocab(vocab, chars)
           /\ inverse_vocab' = InitInverseVocab(inverse_vocab, chars)
           /\ vocab_size' = Cardinality(DOMAIN InitVocab(vocab, chars))
    /\ iterations' = 0
    /\ pc' = "loop"
    /\ UNCHANGED <<word_counts, target, merges, pairs, best_pair, pair_freq, exit, warned>>
    /\ UNCHANGED <<codecVars, mergeVars>>

\* one test of the loop condition and, when it holds, one iteration of the loop
TrainStep ==
    /\ pc = "loop"
    /\ IF ~LoopCond(vocab_size, target, iterations)
       THEN /\ exit' = IF iterations = 0 THEN "target" ELSE "cap"
            /\ pc' = "warn"
            /\ UNCHANGED <<vocab, inverse_vocab, merges, word_freqs, vocab_size,
                           iterations, pairs, best_pair, pair_freq>>
       ELSE LET ps == GetPairs(word_freqs)
            IN  /\ iterations' = iterations + 1
                /\ pairs' = ps
                /\ IF ps = <<>>
                   THEN /\ exit' = "nopairs"
                        /\ pc' = "warn"
                        /\ UNCHANGED <<vocab, inverse_vocab, merges, word_freqs,
                                       vocab_size, best_pair, pair_freq>>
                   ELSE LET best == BestPair(ps)
                            freq == Get(ps, best)
                            new_token == Concat(best)
                        IN  /\ best_pair' = best
                            /\ pair_freq' = freq
                            /\ IF BelowFloor(freq)
                               THEN /\ exit' = "floor"
                                    /\ pc' = "warn"
                                    /\ UNCHANGED <<vocab, inverse_vocab, merges,
                                                   word_freqs, vocab_size>>
                               ELSE /\ merges' = Put(merges, best, new_token)
                                    /\ vocab' = FunPut(vocab, new_token, vocab_size)
                                    /\ inverse_vocab' = FunPut(inverse_vocab, vocab_size, new_token)
                                    /\ vocab_size' = vocab_size + 1
                                    /\ word_freqs' = Rebuild(word_freqs, best)
                                    /\ IF vocab_size + 1 >= target
                                       THEN exit' = "target" /\ pc' = "warn"
                                       ELSE exit' = exit /\ pc' = "loop"
    /\ UNCHANGED <<word_counts, target, warned>>
    /\ UNCHANGED <<codecVars, mergeVars>>

\* train, after the loop
TrainEnd ==
    /\ pc = "warn"
    /\ warned' = WarnCond(iterations)
    /\ pc' = "done"
    /\ UNCHANGED <<word_counts, target, vocab, inverse_vocab, merges, word_freqs,
                   vocab_size, iterations, pairs, best_pair, pair_freq, exit>>
    /\ UNCHANGED <<codecVars, mergeVars>>

(***************************************************************************)
(* print_token_analysis, encode, decode                                    *)
(***************************************************************************)

RECURSIVE ApplyMerges(_, _, _)
\* print_token_analysis: "for pair, merged in self.merges.items():
\*     tokenized_word = self._merge_word(tokenized_word, pair)"
ApplyMerges(m, i, tokenized_word) ==
    IF i > Len(m) THEN tokenized_word
    ELSE ApplyMerges(m, i + 1, MergeWord(tokenized_word, m[i][1]))

\* the final tokens print_token_analysis shows for a word
TokenAnalysis(m, word) == Split(ApplyMerges(m, 1, CharSplit(word)))

\* the places in pairs.keys() of the pairs that are keys of merges
Mergeable(ps, m) == {i \in 1..Len(ps) : ps[i][1] \in Keys(m)}

\* encode's search for bigram, when it finds one: the first key of pairs that
\* is a key of merges
FirstMergeable(ps, m) ==
    ps[CHOOSE i \in Mergeable(ps, m) : \A j \in Mergeable(ps, m) : i <= j][1]

RECURSIVE EncodeLoop(_, _)
\* the "while True" loop of encode on one word
EncodeLoop(word, m) ==
    LET ps == GetPairs(<< <<word, 1>> >>)
    IN  IF ps = <<>> THEN word
        ELSE IF Mergeable(ps, m) = {} THEN word
        ELSE EncodeLoop(MergeWord(word, FirstMergeable(ps, m)), m)

RECURSIVE EncodeWords(_, _, _, _)
\* for word in text.split(): ...; tokens.extend(word.split())
EncodeWords(words, i, m, tokens) ==
    IF i > Len(words) THEN tokens
    ELSE EncodeWords(words, i + 1, m,
                     tokens \o Split(EncodeLoop(CharSplit(words[i]), m)))

\* encode's tokens for a text
EncodeTokens(text, m) == EncodeWords(Split(text), 1, m, <<>>)

\* dict.get(key, default)
DictGet(f, key, default) == IF key \in DOMAIN f THEN f[key] ELSE default

\* dict.get(key)
DictGetOrNone(f, key) == DictGet(f, key, None)

\* TokenId without the default
TokenIdNoDefault(v, token) == DictGetOrNone(v, token)

\* self.vocab.get(token, self.vocab.get('</w>'))
TokenId(v, token) == DictGet(v, token, DictGetOrNone(v, EOW))

\* self.inverse_vocab.get(id, '</w>')
IdToken(iv, id) == DictGet(iv, id, EOW)

\* s.startswith(old, i - 1), i counted from 1
StartsWithAt(s, old, i) ==
    /\ i + Len(old) - 1 <= Len(s)
    /\ SubSeq(s, i, i + Len(old) - 1) = old

RECURSIVE ReplaceFrom(_, _, _, _)
ReplaceFrom(s, old, new, i) ==
    IF i > Len(s) THEN <<>>
    ELSE IF StartsWithAt(s, old, i) THEN new \o ReplaceFrom(s, old, new, i + Len(old))
    ELSE <<s[i]>> \o ReplaceFrom(s, old, new, i + 1)

\* s.replace(old, new) for a non-empty old: the occurrences found from left to
\* right, none overlapping the one before
Replace(s, old, new) == ReplaceFrom(s, old, new, 1)

\* s.strip()
Strip(s) ==
    LET kept == {i \in 1..Len(s) : ~IsSpace(s[i])}
    IN  IF kept = {} THEN <<>>
        ELSE SubSeq(s, CHOOSE i \in kept : \A j \in kept : i <= j,
                       CHOOSE i \in kept : \A j \in kept : i >= j)

\* DecodeText without the strip()
DecodeTextNoStrip(iv, ids) ==
    Replace(Concat([i \in 1..Len(ids) |-> IdToken(iv, ids[i])]), EOW, <<" ">>)

\* decode's text
DecodeText(iv, ids) ==
    Strip(Replace(Concat([i \in 1..Len(ids) |-> IdToken(iv, ids[i])]), EOW, <<" ">>))

\* encode(text), on a trained encoder.  encode and decode read the encoder and
\* write nothing of it, so a call shows the same whatever calls came before:
\* the caller makes one encode and one decode, in either order or alone.
Encode(text) ==
    /\ pc = "done"
    /\ enc_text' = text
    /\ enc_tokens' = EncodeTokens(text, merges)
    /\ enc_ids' = [i \in 1..Len(EncodeTokens(text, merges)) |->
                        TokenId(vocab, EncodeTokens(text, merges)[i])]
    /\ pc' = "encoded"
    /\ UNCHANGED <<dec_ids, dec_text>>
    /\ UNCHANGED <<trainVars, mergeVars>>

\* decode(ids)
Decode(ids) ==
    /\ pc \in {"done", "encoded"}
    /\ dec_ids' = ids
    /\ dec_text' = DecodeText(inverse_vocab, ids)
    /\ pc' = "decoded"
    /\ UNCHANGED <<enc_text, enc_tokens, enc_ids>>
    /\ UNCHANGED <<trainVars, mergeVars>>

\* a call _merge_word(mw_word, mw_pair)
MergeCall ==
    /\ pc = "merge"
    /\ mw_out' = MergeWord(mw_word, mw_pair)
    /\ pc' = "merged"
    /\ UNCHANGED <<mw_word, mw_pair, mw_out2>>
    /\ UNCHANGED <<trainVars, codecVars>>

\* a second call, on the result of the first
MergeAgain ==
    /\ pc = "merged"
    /\ mw_out2' = MergeWord(mw_out, mw_pair)
    /\ pc' = "merged twice"
    /\ UNCHANGED <<mw_word, mw_pair, mw_out>>
    /\ UNCHANGED <<trainVars, codecVars>>

(***************************************************************************)
(* Inputs                                                                  *)
(***************************************************************************)

\* Bounds of the generated corpora
MaxWordLen == 3
MaxCount == 2

\* BytePairEncoder's default vocab_size, and the one of the module's own run
DefaultVocabSize == 100
DemoVocabSize == 20

Letters == {"a", "b"}

\* the words over Letters of 1..n characters
WordsUpTo(n) == UNION {[1..k -> Letters] : k \in 1..n}

\* the ordered dicts of no, one or two distinct words, each counted 0..MaxCount
SmallCorpora ==
    UNION {{wc \in [1..n -> WordsUpTo(MaxWordLen) \X (0..MaxCount)] :
                \A i, j \in 1..n : i < j => wc[i][1] # wc[j][1]} : n \in 0..2}

SmallTargets == {2, 4, DefaultVocabSize}

\* the corpus of the module's own run
DemoCorpus ==
    << <<<<"l", "o", "w">>, 5>>,
       <<<<"l", "o", "w", "e", "s", "t">>, 2>>,
       <<<<"n", "e", "w", "e", "r">>, 6>>,
       <<<<"u", "n", "d", "e", "r">>, 3>>,
       <<<<"n", "e", "w">>, 2>> >>

\* a corpus whose only word spells the end-of-word marker
MarkerCorpus == << <<EOW, 1>> >>

TrainConfigs ==
    (SmallCorpora \X SmallTargets)
        \cup {<<DemoCorpus, DemoVocabSize>>, <<MarkerCorpus, DemoVocabSize>>}

\* BytePairEncoder(vocab_size) for a configuration <<corpus, vocab_size>>
Constructed(cfg) ==
    /\ pc = "new"
    /\ word_counts = cfg[1]
    /\ target = cfg[2]
    /\ vocab = <<>>
    /\ inverse_vocab = <<>>
    /\ merges = <<>>
    /\ word_freqs = <<>>
    /\ vocab_size = 0
    /\ iterations = 0
    /\ pairs = <<>>
    /\ best_pair = <<>>
    /\ pair_freq = 0
    /\ exit = "none"
    /\ warned = FALSE
    /\ enc_text = <<>> /\ enc_tokens = <<>> /\ enc_ids = <<>>
    /\ dec_ids = <<>> /\ dec_text = <<>>
    /\ mw_word = <<>> /\ mw_pair = <<>> /\ mw_out = <<>> /\ mw_out2 = <<>>

\* every word of seven letters over a and b, each counted once, in the order of
\* itertools.product: enough distinct words for more than max_iterations merges
LongCorpus ==
    [i \in 1..128 |->
        <<[j \in 1..7 |-> IF ((i - 1) \div (2 ^ (7 - j))) % 2 = 0 THEN "a" ELSE "b"], 1>>]

\* targets max_iterations - 1, max_iterations and max_iterations + 1 above the
\* three initial symbols of LongCorpus
CapConfigs == {<<LongCorpus, max_iterations + d>> : d \in {2, 3, 4}}

\* the corpora the encoders of the codec runs are trained on: counts 1 and 2
CodecCorpora ==
    UNION {{wc \in [1..n -> WordsUpTo(MaxWordLen) \X {1, 2}] :
                \A i, j \in 1..n : i < j => wc[i][1] # wc[j][1]} : n \in 0..2}

CodecConfigs ==
    (CodecCorpora \X {DefaultVocabSize})
        \cup {<<DemoCorpus, DemoVocabSize>>, <<MarkerCorpus, DemoVocabSize>>}

\* the texts given to encode: every word over Letters of up to MaxWordLen
\* characters, and texts with blanks, with a character no corpus holds, with
\* the characters of the marker, and the empty text
CodecTexts ==
    WordsUpTo(MaxWordLen) \cup
        { <<>>,
          <<" ">>,
          <<"a", "b", " ", "b", "a">>,
          <<" ", "a", " ", " ", "b", "a", "b", " ">>,
          <<"z">>,
          <<"a", "z", "b">>,
          <<"l", "o", "w", "e", "r">>,
          <<"n", "e", "w", "e", "s", "t", " ", "l", "o", "w">>,
          EOW,
          <<"w", "<", "/", "w", ">", "w">>,
          <<"<", "/", "w">> }

\* id sequences given to decode besides the result of the last encode
CodecIds == {<<>>, <<0>>, <<1, 0, 1>>, <<DefaultVocabSize, 1>>}

\* Bound of the words given to _merge_word: their number of symbols
MaxParts == 4

MergeSymbols == {<<"a">>, <<"b">>, <<"a", "a">>}

\* the word representations given to _merge_word: the symbols joined by one
\* blank, as train and encode leave them, and two with the blanks that
\* ' '.join(list(word)) puts around a blank of the word
MergeWords ==
    {Join(parts) : parts \in UNION {[1..n -> MergeSymbols] : n \in 0..MaxParts}}
        \cup {<<"a", " ", " ", " ", "b", " ", "a">>, <<" ", " ", " ", "a", " ", "a">>}

MergePairs == MergeSymbols \X MergeSymbols

InitMerge ==
    \E word \in MergeWords, pair \in MergePairs :
        /\ pc = "merge"
        /\ word_counts = <<>> /\ target = DefaultVocabSize
        /\ vocab = <<>> /\ inverse_vocab = <<>> /\ merges = <<>>
        /\ word_freqs = <<>> /\ vocab_size = 0 /\ iterations = 0
        /\ pairs = <<>> /\ best_pair = <<>> /\ pair_freq = 0
        /\ exit = "none" /\ warned = FALSE
        /\ enc_text = <<>> /\ enc_tokens = <<>> /\ enc_ids = <<>>
        /\ dec_ids = <<>> /\ dec_text = <<>>
        /\ mw_word = word /\ mw_pair = pair /\ mw_out = <<>> /\ mw_out2 = <<>>

NextMerge == MergeCall \/ MergeAgain

SpecMerge == InitMerge /\ [][NextMerge]_vars

InitTrain == \E cfg \in TrainConfigs : Constructed(cfg)

NextTrain == TrainStart \/ TrainStep \/ TrainEnd

InitCap == \E cfg \in CapConfigs : Constructed(cfg)

SpecCap == InitCap /\ [][NextTrain]_vars

InitCodec == \E cfg \in CodecConfigs : Constructed(cfg)

NextCodec ==
    \/ TrainStart
    \/ TrainStep
    \/ TrainEnd
    \/ \E text \in CodecTexts : Encode(text)
    \/ \E ids \in CodecIds : pc = "done" /\ Decode(ids)
    \/ pc = "encoded" /\ Decode(enc_ids)

SpecCodec == InitCodec /\ [][NextCodec]_vars

SpecTrain == InitTrain /\ [][NextTrain]_vars

(***************************************************************************)
(* What the claims speak of, stated without the operators of train         *)
(***************************************************************************)

\* the symbols of each word representation of corpus wf
SymbolsOf(wf) == [w \in 1..Len(wf) |-> Split(wf[w][1])]

\* the places <<w, i>> at which pair p stands in a corpus of symbol sequences
\* syms: word w, symbols i and i + 1
Occurrences(syms, p) ==
    UNION {{<<w, i>> : i \in {j \in 1..(Len(syms[w]) - 1) :
                                 syms[w][j] = p[1] /\ syms[w][j + 1] = p[2]}} :
              w \in 1..Len(syms)}

\* every adjacent pair of the corpus
AdjacentPairs(syms) ==
    UNION {{<<syms[w][i], syms[w][i + 1]>> : i \in 1..(Len(syms[w]) - 1)} :
              w \in 1..Len(syms)}

RECURSIVE SumFreq(_, _)
SumFreq(wf, places) ==
    IF places = {} THEN 0
    ELSE LET x == CHOOSE y \in places : TRUE
         IN  wf[x[1]][2] + SumFreq(wf, places \ {x})

\* the frequency of pair p in corpus wf: the corpus frequency of each occurrence, summed
Frequency(wf, p) == SumFreq(wf, Occurrences(SymbolsOf(wf), p))

\* place x comes no later than place y: words in the corpus's order, symbols left to right
NoLater(x, y) == x[1] < y[1] \/ (x[1] = y[1] /\ x[2] <= y[2])

\* the first of a non-empty set of places
First(places) == CHOOSE x \in places : \A y \in places : NoLater(x, y)

\* the initial symbols of a corpus: its characters and the marker
InitialSymbols(wc) ==
    IF wc = <<>> THEN {}
    ELSE {EOW} \cup UNION {{<<wc[i][1][j]>> : j \in 1..Len(wc[i][1])} : i \in 1..Len(wc)}

\* a step of train that recorded a merge rule
Recorded == pc = "loop" /\ iterations' = iterations + 1 /\ vocab_size' = vocab_size + 1

\* every word of the corpus is a single character
SingleCharCorpus == word_counts # <<>> /\ \A i \in 1..Len(word_counts) : Len(word_counts[i][1]) = 1

(***************************************************************************)
(* Claims about train                                                      *)
(***************************************************************************)

\* C2, as stated: on a corpus of single-character words no merge is ever
\* performed: the pair counter returns the empty mapping at every step, the
\* merge table stays empty and the vocabulary keeps only its initial symbols.
C2_NoMergeOnSingleChars ==
    SingleCharCorpus =>
        /\ pairs = <<>>
        /\ merges = <<>>
        /\ DOMAIN vocab \subseteq InitialSymbols(word_counts)

\* C2, amended: on a corpus of single-character words every merge rule joins
\* a word of the corpus whose count is at least 1 with the marker, so there
\* is at most one rule per word, and the pair counter returns the empty
\* mapping only once every word is a single symbol.
C2_OnlyMarkerMerges ==
    SingleCharCorpus =>
        /\ \A m \in 1..Len(merges) :
              \E i \in 1..Len(word_counts) :
                  /\ word_counts[i][2] >= 1
                  /\ merges[m][1] = <<word_counts[i][1], EOW>>
                  /\ merges[m][2] = word_counts[i][1] \o EOW
        /\ Len(merges) <= Len(word_counts)
        /\ DOMAIN vocab \subseteq
              InitialSymbols(word_counts) \cup {merges[m][2] : m \in 1..Len(merges)}
        /\ (exit = "nopairs" =>
              /\ pairs = <<>>
              /\ \A w \in 1..Len(word_freqs) : Len(Split(word_freqs[w][1])) = 1)

C2_Witness ==
    /\ SingleCharCorpus
    /\ pc = "done"
    /\ exit = "nopairs"
    /\ Len(merges) = 2

\* C4: after train on a fresh encoder vocab and inverse_vocab are mutually
\* inverse bijections, the ids are exactly 0..n-1, the initial symbols hold
\* ids 0..k-1 in sorted order and the i-th learned merge holds id k+i.
C4_VocabBijection ==
    pc = "done" =>
        LET n == Cardinality(DOMAIN vocab)
            init == InitialSymbols(word_counts)
            k == Cardinality(init)
        IN  /\ Range(vocab) = DOMAIN inverse_vocab
            /\ \A sym \in DOMAIN vocab : inverse_vocab[vocab[sym]] = sym
            /\ \A i \in DOMAIN inverse_vocab :
                  inverse_vocab[i] \in DOMAIN vocab /\ vocab[inverse_vocab[i]] = i
            /\ DOMAIN inverse_vocab = 0..(n - 1)
            /\ \A c \in init : c \in DOMAIN vocab /\ vocab[c] \in 0..(k - 1)
            /\ \A c, d \in init : StrLess(c, d) => vocab[c] < vocab[d]
            /\ \A m \in 1..Len(merges) : vocab[merges[m][2]] = k + m - 1

\* C5: on a non-empty corpus the vocabulary never shrinks from one step of
\* training to the next and never holds more than max(target, initial
\* character count) symbols.
C5_VocabSizeBounded ==
    [][word_counts # <<>> =>
        /\ Cardinality(DOMAIN vocab') >= Cardinality(DOMAIN vocab)
        /\ vocab_size' >= vocab_size
        /\ Cardinality(DOMAIN vocab') <=
              Max2(target, Cardinality(InitialSymbols(word_counts)))
        /\ vocab_size' <= Max2(target, Cardinality(InitialSymbols(word_counts)))]_vars

C5_Witness ==
    /\ pc = "done"
    /\ word_counts # <<>>
    /\ merges # <<>>
    /\ Cardinality(DOMAIN vocab) = target
    /\ Cardinality(InitialSymbols(word_counts)) < target

\* C6: every pair recorded in the merge table stood in the corpus of the
\* iteration that selected it, with summed frequency at least 1; also when
\* the corpus holds words of count 0.
C6_NoFabricatedRule ==
    [][Recorded =>
        /\ best_pair' \in Keys(merges')
        /\ Keys(merges') = Keys(merges) \cup {best_pair'}
        /\ Occurrences(SymbolsOf(word_freqs), best_pair') # {}
        /\ Frequency(word_freqs, best_pair') >= 1]_vars

C6_Witness ==
    /\ pc = "done"
    /\ merges # <<>>
    /\ exit = "floor"
    /\ \E i \in 1..Len(word_counts) : word_counts[i][2] = 0

\* C9: the pair recorded by an iteration has the greatest frequency of all
\* adjacent pairs of the current corpus, and of the pairs of that frequency
\* it is the one that occurs first, words taken in the corpus's order and
\* symbols from left to right.
C9_FirstMostFrequentPair ==
    [][Recorded =>
        /\ merges'[Len(merges')] = <<best_pair', Concat(best_pair')>>
        /\ LET syms == SymbolsOf(word_freqs)
               chosen == Occurrences(syms, best_pair')
               most == SumFreq(word_freqs, chosen)
           IN  /\ chosen # {}
               /\ \A q \in AdjacentPairs(syms) :
                     LET others == Occurrences(syms, q)
                         freq == SumFreq(word_freqs, others)
                     IN  /\ freq <= most
                         /\ freq = most => NoLater(First(chosen), First(others))]_vars

\* the last iteration chose among several pairs of the greatest frequency,
\* and there were less frequent pairs before the chosen one
C9_Witness ==
    /\ merges # <<>>
    /\ pairs # <<>>
    /\ merges[Len(merges)][1] = best_pair
    /\ \E i, j \in 1..Len(pairs) :
          /\ i < j
          /\ pairs[i][1] = best_pair
          /\ pairs[j][2] = pairs[i][2]
          /\ \E h \in 1..(i - 1) : pairs[h][2] < pairs[i][2]

\* C8: train stops after at most max_iterations iterations, and the warning
\* is printed exactly when the loop was left because the cap was reached: not
\* when the target size was reached, no pair was left or the floor was hit.
C8_WarningOnlyAtCap ==
    pc = "done" =>
        /\ iterations <= max_iterations
        /\ warned <=> exit = "cap"

(***************************************************************************)
(* Claims about encode and decode                                          *)
(***************************************************************************)

\* a decode of what encode returned for enc_text
RoundTrip == pc = "decoded" /\ dec_ids = enc_ids

\* w is one word without blanks, all of whose characters are in the vocabulary
KnownWord(w) ==
    /\ w # <<>>
    /\ \A i \in 1..Len(w) : ~IsSpace(w[i]) /\ <<w[i]>> \in DOMAIN vocab

\* the marker string occurs in w
HoldsMarker(w) == \E i \in 1..(Len(w) - Len(EOW) + 1) : SubSeq(w, i, i + Len(EOW) - 1) = EOW

\* C1, as stated: for every blank-free word w whose characters are all in the
\* vocabulary, decode(encode(w)) is w.
C1_RoundTrip == (RoundTrip /\ KnownWord(enc_text)) => dec_text = enc_text

\* C1, amended: for every blank-free word w whose characters are all in the
\* vocabulary and that does not hold the marker string '</w>',
\* decode(encode(w)) is w.
C1_RoundTripWithoutMarker ==
    (RoundTrip /\ KnownWord(enc_text) /\ ~HoldsMarker(enc_text)) => dec_text = enc_text

\* a word of several characters that encode made one token, and decode gave back
C1_Witness ==
    /\ RoundTrip
    /\ KnownWord(enc_text)
    /\ ~HoldsMarker(enc_text)
    /\ Len(enc_text) >= 2
    /\ Len(enc_ids) = 1
    /\ dec_text = enc_text

RECURSIVE AnalysisTokens(_, _, _)
\* the tokens of the words, each as the merge rules give them when applied
\* one after another in the order of the merge table
AnalysisTokens(words, i, m) ==
    IF i > Len(words) THEN <<>>
    ELSE TokenAnalysis(m, words[i]) \o AnalysisTokens(words, i + 1, m)

\* C3: the symbols encode produces for a word are those obtained by applying
\* the merge rules to its characters (and the marker) in the order of the
\* merge table, whatever the places of the pairs in the word.
C3_EncodeInTableOrder ==
    pc = "encoded" => enc_tokens = AnalysisTokens(Split(enc_text), 1, merges)

\* C7: after train on a non-empty corpus every element of what encode returns
\* is an id of the vocabulary, one per final symbol: the symbol's id, or the id
\* of the marker for a symbol the vocabulary does not hold.
C7_EncodeFallsBackToMarker ==
    (pc = "encoded" /\ word_counts # <<>>) =>
        /\ Len(enc_ids) = Len(enc_tokens)
        /\ \A i \in 1..Len(enc_ids) :
              /\ enc_ids[i] \in Range(vocab)
              /\ enc_ids[i] = IF enc_tokens[i] \in DOMAIN vocab THEN vocab[enc_tokens[i]]
                                ELSE vocab[EOW]

C7_Witness ==
    /\ pc = "encoded"
    /\ word_counts # <<>>
    /\ \E i, j \in 1..Len(enc_ids) :
          /\ enc_tokens[i] \notin DOMAIN vocab
          /\ enc_ids[i] = vocab[EOW]
          /\ enc_tokens[j] \in DOMAIN vocab
          /\ enc_tokens[j] # EOW

(***************************************************************************)
(* Claim about _merge_word                                                 *)
(***************************************************************************)

RECURSIVE GreedyScan(_, _)
\* one scan from left to right that replaces each occurrence of the pair that
\* does not overlap one already replaced
GreedyScan(parts, pair) ==
    IF Len(parts) < 2 THEN parts
    ELSE IF parts[1] = pair[1] /\ parts[2] = pair[2]
         THEN <<pair[1] \o pair[2]>> \o GreedyScan(SubSeq(parts, 3, Len(parts)), pair)
         ELSE <<parts[1]>> \o GreedyScan(Tail(parts), pair)

\* the pair stands somewhere in the symbols
Occurs(parts, pair) ==
    \E i \in 1..(Len(parts) - 1) : parts[i] = pair[1] /\ parts[i + 1] = pair[2]

\* C10: the symbols of _merge_word's result are those of one greedy scan from
\* left to right without overlap; a word in which the pair does not occur
\* keeps its symbols, and a second application leaves the result of the first.
C10_MergeWordIsGreedyScan ==
    /\ pc \in {"merged", "merged twice"} =>
          /\ Split(mw_out) = GreedyScan(Split(mw_word), mw_pair)
          /\ ~Occurs(Split(mw_word), mw_pair) => Split(mw_out) = Split(mw_word)
    /\ pc = "merged twice" => mw_out2 = mw_out

\* a word in which the pair stands at overlapping places
C10_Witness ==
    /\ pc = "merged twice"
    /\ \E i \in 1..(Len(Split(mw_word)) - 2) :
          /\ Split(mw_word)[i] = mw_pair[1]
          /\ Split(mw_word)[i + 1] = mw_pair[2]
          /\ Split(mw_word)[i + 1] = mw_pair[1]
          /\ Split(mw_word)[i + 2] = mw_pair[2]
    /\ \E j \in 1..(Len(Split(mw_word)) - 1) : Split(mw_word)[j] # mw_pair[1]
    /\ Len(Split(mw_out)) < Len(Split(mw_word))

====
